---------------------------- MODULE Spec2Model ----------------------------
(***************************************************************************)
(* A model of the GlowBot turn pipeline:                                   *)
(*   - app/main.py: the per-phone debounce buffer, its timer tasks and the *)
(*     flush (_process_buffer) that hands a combined turn to the service   *)
(*     and dispatches the returned parts;                                  *)
(*   - app/services/orchestrator.py: GlowBotService.handle_message and its *)
(*     phase handlers;                                                     *)
(*   - app/services/message_splitter.py: split_for_whatsapp.               *)
(* Each part has its own specification (SpecBuffer, SpecTurn, ...) over    *)
(* the module's variables; a specification leaves the variables of the     *)
(* other parts at their idle values.                                       *)
(***************************************************************************)
EXTENDS Integers, Sequences, FiniteSets, Bags, TLC

VARIABLES
  now,              \* event-loop clock, in ticks of half a second
  message_buffers,  \* main._message_buffers: phone -> pending fragments
  debounce_tasks,   \* main._debounce_tasks: phone -> registered task (NoTask: no entry)
  tasks,            \* every asyncio task created by _schedule_debounce, by id
  nextId,           \* id of the next fragment / task
  downloading,      \* webhook calls suspended in download_media
  user,             \* the users row of one phone (repository.UserRepository)
  turn,             \* what the last call of handle_message did
  turns,            \* calls of handle_message that have returned
  inflight,         \* calls of handle_message suspended at an await (a bag)
  arg,              \* the argument a function is applied to
  result            \* what the function returned (done: whether it was applied)

bufferVars == <<now, message_buffers, debounce_tasks, tasks, nextId, downloading>>
turnVars == <<user, turn, turns, inflight>>

callVars == <<arg, result>>

vars == <<bufferVars, turnVars, callVars>>

otherThanBuffer == <<turnVars, callVars, downloading>>
otherThanTurn == <<bufferVars, callVars>>
otherThanCall == <<bufferVars, turnVars>>

\* No function call is modelled.
NoCall == [done |-> FALSE, value |-> FALSE]
CallIdle == arg = <<>> /\ result = NoCall

(***************************************************************************)
(*                    app/main.py: the debounce buffer                     *)
(***************************************************************************)

\* Bounds of the model.
MaxFragments == 3     \* webhook calls in a run
MaxTime == 4          \* last tick of the clock
MaxParts == 2         \* parts handle_message returns at most

\* DEBOUNCE_SECONDS = 1.5, in ticks of half a second.
DEBOUNCE_TICKS == 3

Identities == {"A", "B"}
TaskIds == 1..MaxFragments
NoTask == 0

\* A task that was never created.
NoneTask ==
  [phone |-> "A", state |-> "none", wake |-> 0, messages |-> <<>>,
   flushedAt |-> 0, parts |-> 0, calls |-> 0, error |-> FALSE, sent |-> <<>>]

\* _PendingMessage, as buffered by the webhook. id and at identify the
\* fragment and the tick it was buffered at; text is the Body of the
\* fragment: the fragment's own text, written by its id, or 0 for the empty
\* string of an image-only fragment; image_data is "null" for None.
PendingMessage(id, at) ==
  [id |-> id, at |-> at, text |-> id, image_data |-> "null"]

\* asyncio.Task.done(): finished or cancelled.
TaskDone(task) == task.state \in {"cancelled", "done"}

\* _schedule_debounce, first half: cancel the registered task if it is not done.
CancelExisting_NoCancel(ts, existing) == ts

CancelExisting(ts, existing) ==
  IF existing # NoTask /\ ~TaskDone(ts[existing])
    THEN [ts EXCEPT ![existing].state = "cancelled"]
    ELSE ts

\* _schedule_debounce that cancels the existing task and starts no new one.
ScheduleDebounce_CancelOnly(phone, ts, id) ==
  [CancelExisting(ts, debounce_tasks[phone]) EXCEPT
     ![id] = [NoneTask EXCEPT !.phone = phone, !.state = "cancelled",
                              !.wake = now + DEBOUNCE_TICKS]]

\* _schedule_debounce: cancel the existing task, create a fresh one that sleeps
\* DEBOUNCE_SECONDS, register it.
ScheduleDebounce_KeepExisting(phone, ts, id) ==
  [ts EXCEPT ![id] = [NoneTask EXCEPT !.phone = phone, !.state = "sleeping",
                                      !.wake = now + DEBOUNCE_TICKS]]

ScheduleDebounce(phone, ts, id) ==
  [CancelExisting(ts, debounce_tasks[phone]) EXCEPT
     ![id] = [NoneTask EXCEPT !.phone = phone, !.state = "sleeping",
                              !.wake = now + DEBOUNCE_TICKS]]

\* A webhook that buffers the message and schedules nothing.
Webhook_AppendOnly(phone) ==
  /\ nextId <= MaxFragments
  /\ message_buffers' =
       [message_buffers EXCEPT ![phone] = Append(@, PendingMessage(nextId, now))]
  /\ tasks' = [tasks EXCEPT ![nextId] = [NoneTask EXCEPT !.phone = phone,
                                                         !.state = "cancelled"]]
  /\ nextId' = nextId + 1
  /\ UNCHANGED <<now, debounce_tasks, otherThanBuffer>>

\* whatsapp_webhook: buffer the message and reset the debounce timer
\* (lines 187-196 run without suspension).
Webhook(phone) ==
  /\ nextId <= MaxFragments
  /\ message_buffers' =
       [message_buffers EXCEPT ![phone] = Append(@, PendingMessage(nextId, now))]
  /\ tasks' = ScheduleDebounce(phone, tasks, nextId)
  /\ debounce_tasks' = [debounce_tasks EXCEPT ![phone] = nextId]
  /\ nextId' = nextId + 1
  /\ UNCHANGED <<now, otherThanBuffer>>

\* _process_buffer that reads the buffer without taking it.
ProcessBuffer_LeaveBuffer(t) ==
  /\ tasks[t].state = "sleeping"
  /\ now >= tasks[t].wake
  /\ LET phone == tasks[t].phone
         messages == message_buffers[phone]
     IN /\ message_buffers' = message_buffers
        /\ debounce_tasks' = [debounce_tasks EXCEPT ![phone] = NoTask]
        /\ tasks' = [tasks EXCEPT
                       ![t].state = IF messages = <<>> THEN "done" ELSE "session",
                       ![t].messages = messages,
                       ![t].flushedAt = now]
  /\ UNCHANGED <<now, nextId, otherThanBuffer>>

\* _process_buffer that leaves its task in the registry.
ProcessBuffer_KeepRegistered(t) ==
  /\ tasks[t].state = "sleeping"
  /\ now >= tasks[t].wake
  /\ LET phone == tasks[t].phone
         messages == message_buffers[phone]
     IN /\ message_buffers' = [message_buffers EXCEPT ![phone] = <<>>]
        /\ debounce_tasks' = debounce_tasks
        /\ tasks' = [tasks EXCEPT
                       ![t].state = IF messages = <<>> THEN "done" ELSE "session",
                       ![t].messages = messages,
                       ![t].flushedAt = now]
  /\ UNCHANGED <<now, nextId, otherThanBuffer>>

\* _debounced_process resumes after asyncio.sleep and enters _process_buffer:
\* pop the buffer and the registry entry; return if nothing was buffered.
\* A cancelled task never resumes here.
ProcessBuffer(t) ==
  /\ tasks[t].state = "sleeping"
  /\ now >= tasks[t].wake
  /\ LET phone == tasks[t].phone
         messages == message_buffers[phone]
     IN /\ message_buffers' = [message_buffers EXCEPT ![phone] = <<>>]
        /\ debounce_tasks' = [debounce_tasks EXCEPT ![phone] = NoTask]
        /\ tasks' = [tasks EXCEPT
                       ![t].state = IF messages = <<>> THEN "done" ELSE "session",
                       ![t].messages = messages,
                       ![t].flushedAt = now]
  /\ UNCHANGED <<now, nextId, otherThanBuffer>>

\* async with AsyncSessionLocal() as db: opening the session may raise; the
\* except clause of _process_buffer logs and the task ends.
OpenSession(t) ==
  /\ tasks[t].state = "session"
  /\ \E ok \in BOOLEAN :
       tasks' = [tasks EXCEPT ![t].state = IF ok THEN "handling" ELSE "done",
                              ![t].error = ~ok]
  /\ UNCHANGED <<now, message_buffers, debounce_tasks, nextId, otherThanBuffer>>

\* await glowbot.handle_message(...): the call raises and the except clause
\* logs (n = 0), or it returns a list of n >= 1 parts. The call is made with
\* the keyword arguments image_data and image_content_type, which the
\* handle_message of services/orchestrator.py does not declare: with that
\* signature the call raises TypeError; the model also admits a service that
\* accepts the call, so that the dispatch loop is modelled.
CallHandleMessage(t) ==
  /\ tasks[t].state = "handling"
  /\ \E n \in 0..MaxParts :
       tasks' = [tasks EXCEPT ![t].state = IF n = 0 THEN "done" ELSE "sending",
                              ![t].parts = n,
                              ![t].error = (n = 0)]
  /\ UNCHANGED <<now, message_buffers, debounce_tasks, nextId, otherThanBuffer>>

\* The call whatsapp_service.send_message(to=phone_number, message=part)
\* for part number n of a flush of phone; ok: whether the gateway took it.
SendCall(phone, n, ok) == [to |-> phone, part |-> n, ok |-> ok]

\* A dispatch loop that goes on with the next part after a failed send.
SendPart_SkipFailed(t) ==
  /\ tasks[t].state = "sending"
  /\ \E ok \in BOOLEAN :
       tasks' = [tasks EXCEPT
                   ![t].calls = @ + 1,
                   ![t].error = ~ok,
                   ![t].sent = Append(@, SendCall(tasks[t].phone, tasks[t].calls + 1, ok)),
                   ![t].state = IF tasks[t].calls + 1 < tasks[t].parts
                                  THEN "sending" ELSE "done"]
  /\ UNCHANGED <<now, message_buffers, debounce_tasks, nextId, otherThanBuffer>>

\* for part in responses: await whatsapp_service.send_message(...).
\* send_message raises HTTPException on a gateway error: the loop is left.
\* sent is the log of the calls made for the flush.
SendPart(t) ==
  /\ tasks[t].state = "sending"
  /\ \E ok \in BOOLEAN :
       tasks' = [tasks EXCEPT
                   ![t].calls = @ + 1,
                   ![t].error = ~ok,
                   ![t].sent = Append(@, SendCall(tasks[t].phone, tasks[t].calls + 1, ok)),
                   ![t].state = IF ok /\ tasks[t].calls + 1 < tasks[t].parts
                                  THEN "sending" ELSE "done"]
  /\ UNCHANGED <<now, message_buffers, debounce_tasks, nextId, otherThanBuffer>>

\* The clock advances.
Tick ==
  /\ now < MaxTime
  /\ now' = now + 1
  /\ UNCHANGED <<message_buffers, debounce_tasks, tasks, nextId, otherThanBuffer>>

BufferIdle ==
  /\ downloading = {}
  /\ now = 0
  /\ message_buffers = [p \in Identities |-> <<>>]
  /\ debounce_tasks = [p \in Identities |-> NoTask]
  /\ tasks = [t \in TaskIds |-> NoneTask]
  /\ nextId = 1

NextBuffer ==
  \/ \E p \in Identities : Webhook(p)
  \/ \E t \in TaskIds : ProcessBuffer(t)
  \/ \E t \in TaskIds : OpenSession(t)
  \/ \E t \in TaskIds : CallHandleMessage(t)
  \/ \E t \in TaskIds : SendPart(t)
  \/ Tick


(***************************************************************************)
(*          app/main.py: webhook calls that carry an attachment            *)
(***************************************************************************)

\* whatsapp_webhook with a media_url, up to the await of download_media
\* (lines 163-179): the call is suspended, nothing is buffered yet. The
\* fragment gets its id on arrival; it has a caption or its Body is empty.
WebhookMedia(phone) ==
  /\ nextId <= MaxFragments
  /\ \E caption \in BOOLEAN :
       downloading' = downloading \cup
         {[id |-> nextId, phone |-> phone, text |-> IF caption THEN nextId ELSE 0]}
  /\ nextId' = nextId + 1
  /\ UNCHANGED <<now, message_buffers, debounce_tasks, tasks, turnVars, callVars>>

\* download_media returns or raises (the failure is logged and the fragment
\* goes on without image bytes); the webhook resumes, buffers the message and
\* resets the debounce timer (lines 179-196).
DownloadDone(id) ==
  \E d \in downloading :
  /\ d.id = id
  /\ \E ok \in BOOLEAN :
       message_buffers' =
         [message_buffers EXCEPT ![d.phone] =
            Append(@, [PendingMessage(d.id, now) EXCEPT
                         !.text = d.text,
                         !.image_data = IF ok THEN "image" ELSE "null"])]
  /\ tasks' = ScheduleDebounce(d.phone, tasks, d.id)
  /\ debounce_tasks' = [debounce_tasks EXCEPT ![d.phone] = d.id]
  /\ downloading' = downloading \ {d}
  /\ UNCHANGED <<now, nextId, turnVars, callVars>>

\* _process_buffer, line 54: the texts of the buffered messages that have
\* one ("if m.text"), in buffer order (joined by a blank line).
HasText(m) == m.text # 0

CombinedText(messages) ==
  LET with == SelectSeq(messages, HasText)
  IN [i \in 1..Len(with) |-> with[i].text]

\* Lines 57-60: the first buffered message with image bytes (0 if none).

FirstImage(messages) ==
  LET with == {i \in 1..Len(messages) : messages[i].image_data # "null"}
  IN IF with = {} THEN 0
     ELSE messages[CHOOSE i \in with : \A j \in with : i <= j].id

(***************************************************************************)
(*        app/services/orchestrator.py: GlowBotService.handle_message      *)
(***************************************************************************)

\* A text is a sequence of characters; a Hebrew letter is written by its
\* code point ("u05db").

\* _handle_review: confirm_signals
confirm_signals ==
  << <<"y", "e", "s">>,
     <<"y", "e", "a", "h">>,
     <<"y", "e", "p">>,
     <<"c", "o", "r", "r", "e", "c", "t">>,
     <<"l", "o", "o", "k", "s", " ", "g", "o", "o", "d">>,
     <<"t", "h", "a", "t", "'", "s", " ", "r", "i", "g", "h", "t">>,
     <<"c", "o", "n", "f", "i", "r", "m", "e", "d">>,
     <<"c", "o", "n", "f", "i", "r", "m">>,
     <<"o", "k">>,
     <<"o", "k", "a", "y">>,
     <<"p", "e", "r", "f", "e", "c", "t">>,
     <<"g", "r", "e", "a", "t">>,
     <<"u05db", "u05df">>,
     <<"u05e0", "u05db", "u05d5", "u05df">>,
     <<"u05de", "u05d0", "u05e9", "u05e8">>,
     <<"u05de", "u05d0", "u05e9", "u05e8", "u05ea">>,
     <<"u05d1", "u05e1", "u05d3", "u05e8">>,
     <<"u05de", "u05e6", "u05d5", "u05d9", "u05df">> >>

\* _handle_complete: restart_signals
restart_signals ==
  << <<"s", "t", "a", "r", "t", " ", "o", "v", "e", "r">>,
     <<"r", "e", "s", "t", "a", "r", "t">>,
     <<"n", "e", "w", " ", "c", "o", "n", "s", "u", "l", "t", "a", "t", "i", "o", "n">>,
     <<"r", "e", "s", "e", "t">>,
     <<"u05de", "u05d7", "u05d3", "u05e9">>,
     <<"u05d4", "u05ea", "u05d7", "u05dc", " ", "u05de", "u05d7", "u05d3", "u05e9">> >>

\* _handle_complete: detail_signals
detail_signals ==
  << <<"y", "e", "s">>,
     <<"y", "e", "a", "h">>,
     <<"y", "e", "p">>,
     <<"d", "e", "t", "a", "i", "l", "e", "d">>,
     <<"d", "e", "t", "a", "i", "l", "s">>,
     <<"m", "o", "r", "e">>,
     <<"t", "i", "p", "s">>,
     <<"u05db", "u05df">>,
     <<"u05e4", "u05d9", "u05e8", "u05d5", "u05d8">>,
     <<"u05e2", "u05d5", "u05d3">> >>

HebrewChars == {"u05d0", "u05d1", "u05d3", "u05d4", "u05d5", "u05d7", "u05d8", "u05d9", "u05db", "u05dc", "u05de", "u05df", "u05e0", "u05e1", "u05e2", "u05e4", "u05e6", "u05e8", "u05e9", "u05ea"}
MsgRestart == <<"r", "e", "s", "t", "a", "r", "t">>
MsgYes == <<" ", "Y", "e", "s">>
MsgMore == <<"m", "o", "r", "e", " ", "t", "i", "p", "s">>
MsgHello == <<"h", "e", "l", "l", "o">>
MsgKen == <<"u05db", "u05df">>

\* Messages a user sends in the model.
Messages == {MsgRestart, MsgYes, MsgMore, MsgHello, MsgKen}

\* Messages in which a signal is part of a longer word ("reset" in "preset",
\* "ok" in "book") or is followed by punctuation.
MsgPreset == <<"m", "y", " ", "p", "r", "e", "s", "e", "t">>
MsgBook == <<"b", "o", "o", "k">>
MsgOkBang == <<"O", "k", "!">>
WordMessages == {MsgPreset, MsgBook, MsgOkBang, MsgRestart, MsgHello}

\* Maximum exchanges kept as message_history (user+assistant pairs).
MAX_HISTORY_PAIRS == 20

\* Turns in a run (a bound of the model).
MaxTurns == 2

\* str.lower() on the characters used.
LowerChar(ch) ==
  CASE ch = "Y" -> "y"
    [] ch = "O" -> "o"
    [] ch = "R" -> "r"
    [] OTHER -> ch

Lower(text) == [i \in 1..Len(text) |-> LowerChar(text[i])]

IsSpace(ch) == ch \in {" ", "\n", "\t"}

\* str.strip(): drop leading and trailing whitespace.
RECURSIVE LStrip(_)
LStrip(text) ==
  IF text # <<>> /\ IsSpace(Head(text)) THEN LStrip(Tail(text)) ELSE text

RECURSIVE RStrip(_)
RStrip(text) ==
  IF text # <<>> /\ IsSpace(text[Len(text)])
    THEN RStrip(SubSeq(text, 1, Len(text) - 1))
    ELSE text

Strip(text) == RStrip(LStrip(text))

\* sig in text: sig occurs in text as a contiguous substring.
Contains(text, sig) ==
  \E i \in 0..(Len(text) - Len(sig)) :
    \A j \in 1..Len(sig) : text[i + j] = sig[j]

\* any(sig in lower for sig in signals)
AnySignal(signals, lower) ==
  \E k \in 1..Len(signals) : Contains(lower, signals[k])

\* _detect_language: Hebrew by Unicode range, else English.
DetectLanguage(text) ==
  IF \E i \in 1..Len(text) : text[i] \in HebrewChars THEN "hebrew" ELSE "english"

\* What the handlers compute from the text of a message, evaluated once for
\* each message of the model: lower = message.lower().strip() matched against
\* the three signal lists, and the detected language.
MessageFacts ==
  [m \in Messages \cup WordMessages |->
     [confirm |-> AnySignal(confirm_signals, Strip(Lower(m))),
      restart |-> AnySignal(restart_signals, Strip(Lower(m))),
      detail |-> AnySignal(detail_signals, Strip(Lower(m))),
      language |-> DetectLanguage(m)]]

\* schemas.HealthInfo and schemas.UserProfile with their defaults. Optional
\* fields hold "null" for None; the list and free-text fields the handlers
\* never read (preferences, notes, medications, ...) are left out.
\* UserProfile declares no interview_complete and no last_routine: a key of
\* that name in a stored profile_json is dropped by model_validate, and
\* services/orchestrator.py raises where it assigns or reads one.
DefaultHealth ==
  [is_pregnant |-> "null", is_nursing |-> "null", planning_pregnancy |-> "null"]

DefaultProfile ==
  [skin_type |-> "null", concerns |-> <<>>, health |-> DefaultHealth,
   sun_exposure |-> "null", budget |-> "null",
   current_routine_morning |-> "null", current_routine_evening |-> "null",
   age_verified |-> FALSE, language |-> "english", health_screened |-> FALSE,
   turns_since_sufficient |-> 0]

\* UserProfile(language=...)
NewProfile(language) == [DefaultProfile EXCEPT !.language = language]

\* A check that tests is_pregnant by truth value, like the three fields
\* before it: an answer of False counts as no answer.
IsProfileSufficient_Truthy(profile) ==
  /\ profile.age_verified
  /\ profile.skin_type # "null"
  /\ profile.concerns # <<>>
  /\ profile.health.is_pregnant = "true"

\* _is_profile_sufficient: minimum data has been collected.
IsProfileSufficient(profile) ==
  /\ profile.age_verified
  /\ profile.skin_type # "null"
  /\ profile.concerns # <<>>
  /\ profile.health.is_pregnant # "null"

\* pydantic-ai messages. A message object is its kind and whether it has a
\* model_dump method, which _serialize_history tests; ModelRequest and
\* ModelResponse are the objects model_validate builds. A stored entry is
\* what item.get("kind") gives ("missing" for None, "not_a_dict" for an
\* entry that is no dict) and whether model_validate accepts it.
ModelRequest == [kind |-> "request", model_dump |-> TRUE]
ModelResponse == [kind |-> "response", model_dump |-> TRUE]

\* str(msg): the entry stored for a message without model_dump.
StrEntry == [kind |-> "not_a_dict", valid |-> FALSE]

\* _serialize_history: model_dump of every message that has one, str(msg)
\* of the others.
SerializeHistory(history) ==
  [i \in 1..Len(history) |->
     IF history[i].model_dump
       THEN [kind |-> history[i].kind, valid |-> TRUE]
       ELSE StrEntry]

\* _deserialize_history: rebuild the request / response entries, skip the rest.
DeserializeKeeps_Unchecked(item) == item.kind \in {"request", "response"}

DeserializeKeeps(item) == item.kind \in {"request", "response"} /\ item.valid

DeserializeHistory(raw) ==
  LET kept == SelectSeq(raw, DeserializeKeeps)
  IN [i \in 1..Len(kept) |->
        IF kept[i].kind = "request" THEN ModelRequest ELSE ModelResponse]

\* result.new_messages(): the request and the response of one agent run.
\* The message classes come from pydantic-ai; model_dump says whether its
\* objects have that method.
NewMessages(model_dump) ==
  <<[kind |-> "request", model_dump |-> model_dump],
    [kind |-> "response", model_dump |-> model_dump]>>

\* message_history[-(MAX_HISTORY_PAIRS * 2):] if message_history else []
TrimHistory_KeepAll(history) == history

TrimHistory(history) ==
  IF Len(history) > MAX_HISTORY_PAIRS * 2
    THEN SubSeq(history, Len(history) - MAX_HISTORY_PAIRS * 2 + 1, Len(history))
    ELSE history

\* Profiles the interview agent returns in the model: nothing collected, the
\* four fields _is_profile_sufficient reads, all eight fields the prompt
\* lists, and the eight without the skin type.
ProfileFour ==
  [DefaultProfile EXCEPT !.age_verified = TRUE, !.skin_type = "oily",
                         !.concerns = <<"acne">>,
                         !.health = [DefaultHealth EXCEPT !.is_pregnant = "false"]]

ProfileFull ==
  [ProfileFour EXCEPT !.health_screened = TRUE, !.sun_exposure = "moderate",
                      !.budget = "mid_range",
                      !.current_routine_morning = "soap"]

ProfileFullNoSkin == [ProfileFull EXCEPT !.skin_type = "null"]

\* The four fields, of a user who is pregnant.
ProfilePregnant == [ProfileFour EXCEPT !.health.is_pregnant = "true"]

DelegateProfiles == {DefaultProfile, ProfileFour, ProfileFull, ProfileFullNoSkin}

\* The result of interview_agent.run: the structured output (profile,
\* interview_complete) and new_messages().
DelegateOutputs ==
  [profile : DelegateProfiles, interview_complete : BOOLEAN,
   new_messages : {NewMessages(TRUE)}]

\* Stands for "no output" on a turn where the agent did not return.
NoOutput ==
  [profile |-> DefaultProfile, interview_complete |-> FALSE,
   new_messages |-> <<>>]

\* The gate of _handle_interview / _handle_review:
\* result.output.interview_complete and _is_profile_sufficient(new_profile).
InterviewComplete(out, new_profile) ==
  out.interview_complete /\ IsProfileSufficient(new_profile)

\* new_profile = result.output.profile; new_profile.language = profile.language
AgentProfile(profile, out) == [out.profile EXCEPT !.language = profile.language]

\* What a handler gives when it raises instead of returning: nothing comes
\* back but the calls it made (delegate: interview_agent.run, planner:
\* routine_planner_agent.run). profile, phase and history are what the
\* handler was called with.
HandlerRaises(profile, phase, history, delegate, planner) ==
  [responses |-> <<>>, profile |-> profile, phase |-> phase,
   history |-> history, delegate |-> delegate, planner |-> planner,
   raises |-> TRUE]

\* _handle_interview: run the interview agent, take its profile, check for
\* completion. When the gate holds, line 256 assigns
\* new_profile.interview_complete, a field UserProfile does not have:
\* pydantic raises ValueError and the handler does not return.
HandleInterview(profile, message, history, out) ==
  LET new_profile == AgentProfile(profile, out)
  IN IF InterviewComplete(out, new_profile)
       THEN HandlerRaises(profile, "interviewing", history, 1, 0)
       ELSE [responses |-> <<"interview">>,
             profile |-> new_profile,
             phase |-> "interviewing",
             history |-> history \o out.new_messages,
             delegate |-> 1, planner |-> 0, raises |-> FALSE]

\* _handle_recommendation: run the routine planner, then line 338 assigns
\* profile.last_routine, a field UserProfile does not have: pydantic raises
\* ValueError after the planner call, on every input.
HandleRecommendation(profile) ==
  [profile |-> profile, planner |-> 1, raises |-> TRUE]

\* _handle_review: a confirmation generates the routine at once; anything
\* else goes to the interview agent as a correction.
HandleReview(profile, message, history, out) ==
  LET rec == HandleRecommendation(profile)
      new_profile == AgentProfile(profile, out)
  IN IF MessageFacts[message].confirm
       THEN HandlerRaises(rec.profile, "reviewing", history, 0, rec.planner)
     ELSE IF InterviewComplete(out, new_profile)
       THEN HandlerRaises(profile, "reviewing", history, 1, 0)
     ELSE [responses |-> <<"interview">>,
           profile |-> new_profile,
           phase |-> "reviewing",
           history |-> history \o out.new_messages,
           delegate |-> 1, planner |-> 0, raises |-> FALSE]

\* _handle_complete: restart, the detailed routine, or the interview agent as
\* a Q&A helper (its profile output is not used). On a detail signal line 375
\* reads profile.last_routine, an attribute UserProfile does not have:
\* AttributeError.
HandleComplete(profile, message, history, out) ==
  IF MessageFacts[message].restart
       THEN [responses |-> <<"restart">>,
             profile |-> NewProfile(profile.language),
             phase |-> "interviewing",
             history |-> <<>>,
             delegate |-> 0, planner |-> 0, raises |-> FALSE]
  ELSE IF MessageFacts[message].detail
       THEN HandlerRaises(profile, "complete", history, 0, 0)
  ELSE [responses |-> <<"interview">>,
        profile |-> profile,
        phase |-> "complete",
        history |-> history \o out.new_messages,
        delegate |-> 1, planner |-> 0, raises |-> FALSE]

\* handle_message, step 5: route to the handler of the phase.
Route(profile, phase, message, history, out) ==
  CASE phase = "interviewing" -> HandleInterview(profile, message, history, out)
    [] phase = "reviewing" -> HandleReview(profile, message, history, out)
    [] phase = "recommending" ->
         LET rec == HandleRecommendation(profile)
         IN HandlerRaises(rec.profile, "recommending", history, 0, rec.planner)
    [] OTHER -> HandleComplete(profile, message, history, out)

\* The reply of the except clause of handle_message (line 221), the same
\* for every language.
Apology == "I'm sorry, something went wrong. Could you try again?"

\* The users row of a phone that has not written yet. The values are the
\* defaults a new row is read with: profile_json {} validates to the default
\* UserProfile, conversation_phase is "interviewing", message_history_json [].
\* updated_at (db.py line 33, onupdate) is written as the number of UPDATEs
\* of the row.
NoUser ==
  [exists |-> FALSE, profile_json |-> DefaultProfile,
   conversation_phase |-> "interviewing", message_history_json |-> <<>>,
   updated_at |-> 0]

\* turn records the call of handle_message that returned last: its message,
\* the row it loaded at line 164 (row) and the phase of that row, the agent's
\* output (NoOutput if the agent did not return one), the step it raised at
\* ("none" if it did not), what the call did (loaded: the length of the
\* history it deserialized), the row as the call left it (stored: what
\* its save committed, or the row it loaded when it committed nothing) and
\* whether a step of the call changed the profile, the phase or the history
\* in the users table (wrote).
NoTurn ==
  [message |-> <<>>, phase |-> "interviewing", out |-> NoOutput,
   raisedAt |-> "none", responses |-> <<>>, loaded |-> 0,
   delegate |-> 0, planner |-> 0, row |-> NoUser, stored |-> NoUser,
   wrote |-> FALSE]

\* handle_message is a coroutine: it gives way to the event loop at every
\* await, so calls for one phone interleave. The awaits of a call are, in
\* order: the SELECT of get_or_create (repository.py line 25), for a phone
\* without a row the commit of the INSERT (35) and the refresh (36), the
\* log_message of line 177, the agent.run of the handler (interview agent
\* 243 / 298 / 382, routine planner 330; the restart and detail branches of
\* _handle_complete await nothing), the commit of save (207) and the
\* log_message of line 211. A call in flight is its message, the await it
\* is suspended at (at), the row it has read, the agent's output once the
\* agent has returned, and whether a step of the call has changed the
\* profile, the phase or the history in the users table (wrote). A step of
\* the model is the database operation of one await together with the code
\* of the call that follows it up to the next await, which reads and writes
\* the call's own objects only.
Call(message, at, row) ==
  [message |-> message, at |-> at, row |-> row, out |-> NoOutput,
   wrote |-> FALSE]

InFlight == BagToSet(inflight)

Resume(c) == inflight (-) SetToBag({c})

\* Lines 167-173: the profile, the phase and the history the call works on,
\* deserialized from the row it read, with the language of the message.
Loaded(row, message) ==
  [profile |-> [row.profile_json EXCEPT !.language = MessageFacts[message].language],
   phase |-> row.conversation_phase,
   message_history |-> DeserializeHistory(row.message_history_json)]

\* Lines 180-200: what the handler of the loaded phase makes of the call.
Handled(c) ==
  LET s == Loaded(c.row, c.message)
  IN Route(s.profile, s.phase, c.message, s.message_history, c.out)

\* Lines 202-206: the call assigns profile_json, conversation_phase and
\* message_history_json of the row object it loaded.
AssignRow(row, r) ==
  [row EXCEPT !.exists = TRUE,
              !.profile_json = r.profile,
              !.conversation_phase = r.phase,
              !.message_history_json = SerializeHistory(TrimHistory(r.history))]

\* The UPDATE the session emits at the commit of repo.save. The session is
\* configured in app/database.py; the specification has one record per
\* identity, read once at turn start and written once at turn end, the last
\* write winning: the commit replaces the record in the table by the record
\* the call assigned. updated_at is set by the UPDATE.
CommitRow(table, assigned) ==
  [assigned EXCEPT !.updated_at = table.updated_at + 1]

\* The outcome of a step of a call: the call goes on, suspended at its next
\* await, or it returns; u is the users row after the step.
Continue(c, u) == [user |-> u, call |-> <<c>>, turn |-> <<>>]

\* The call returns from the except clause (raisedAt # "none": the apology)
\* or from line 217 (the responses of the handler). row is the row the call
\* loaded, stored the row as the call left it.
Return(c, raisedAt, row, stored, delegate, planner, u) ==
  [user |-> u,
   call |-> <<>>,
   turn |-> <<[message |-> c.message,
               phase |-> row.conversation_phase,
               out |-> c.out,
               raisedAt |-> raisedAt,
               responses |-> IF raisedAt = "none" THEN Handled(c).responses
                                                  ELSE <<Apology>>,
               loaded |-> IF raisedAt = "load" THEN 0
                          ELSE Len(DeserializeHistory(row.message_history_json)),
               delegate |-> delegate,
               planner |-> planner,
               row |-> row,
               stored |-> stored,
               wrote |-> c.wrote]>>]

\* get_or_create, line 35: the INSERT of a phone that had no row at the
\* SELECT is committed. phone_number is unique: the commit raises when
\* another call has inserted the row since, and it may raise on its own
\* (ok false); nothing is inserted then. handle_message returns the apology.
InsertCommit(c, ok) ==
  IF ok /\ ~user.exists
    THEN Continue([c EXCEPT !.at = "refresh"], [user EXCEPT !.exists = TRUE])
    ELSE Return(c, "load", user, user, 0, 0, user)

\* A get_or_create that does not refresh: it returns the object it built,
\* with the defaults of a new row.
Refresh_Defaults(c, ok) ==
  IF ok
    THEN Continue([c EXCEPT !.at = "log_user",
                            !.row = [NoUser EXCEPT !.exists = TRUE]], user)
    ELSE Return(c, "load", user, user, 0, 0, user)

\* get_or_create, line 36: db.refresh reads the row as it is in the table
\* now, or raises (the row stays inserted).
Refresh(c, ok) ==
  IF ok
    THEN Continue([c EXCEPT !.at = "log_user", !.row = user], user)
    ELSE Return(c, "load", user, user, 0, 0, user)

\* Line 177 and the handler up to its await: the incoming message is logged
\* (or log_message raises), then the handler of the loaded phase runs until
\* it awaits the planner or the interview agent; _handle_complete returns
\* at once on a restart signal and raises on a detail signal (line 375 reads
\* profile.last_routine, which UserProfile does not have).
LogUser(c, ok) ==
  LET r == Handled(c)
  IN IF ~ok THEN Return(c, "log_user", c.row, c.row, 0, 0, user)
     ELSE IF r.planner > 0 THEN Continue([c EXCEPT !.at = "planner"], user)
     ELSE IF r.delegate > 0 THEN Continue([c EXCEPT !.at = "agent"], user)
     ELSE IF r.raises THEN Return(c, "profile_field", c.row, c.row, 0, 0, user)
     ELSE Continue([c EXCEPT !.at = "save"], user)

\* A call that saves the profile with the detected language when the agent
\* raises.
AgentRun_SaveLanguage(c, ok, out) ==
  LET d == [c EXCEPT !.out = out]
  IN IF ~ok
       THEN Return(c, "delegate", c.row, c.row, 1, 0,
                   CommitRow(user, [c.row EXCEPT !.profile_json =
                                      Loaded(c.row, c.message).profile]))
     ELSE IF Handled(d).raises
       THEN Return(d, "profile_field", c.row, c.row, 1, 0, user)
     ELSE Continue([d EXCEPT !.at = "save"], user)

\* interview_agent.run returns out or raises; the handler goes on to its
\* return, or raises where it assigns a field UserProfile does not have
\* (line 256); step 6 assigns the row object and save is awaited.
AgentRun(c, ok, out) ==
  LET d == [c EXCEPT !.out = out]
  IN IF ~ok THEN Return(c, "delegate", c.row, c.row, 1, 0, user)
     ELSE IF Handled(d).raises
       THEN Return(d, "profile_field", c.row, c.row, 1, 0, user)
     ELSE Continue([d EXCEPT !.at = "save"], user)

\* routine_planner_agent.run returns or raises; line 338 then assigns
\* profile.last_routine, which UserProfile does not have: ValueError.
PlannerRun(c, ok) ==
  Return(c, IF ok THEN "profile_field" ELSE "planner", c.row, c.row, 0,
         Handled(c).planner, user)

\* A save that appends the entries of the call to the history the table
\* holds at the time of the commit.
SaveCommit_Merge(c, ok) ==
  LET r == Handled(c)
      added == IF r.delegate > 0 THEN c.out.new_messages ELSE <<>>
  IN IF ok
       THEN Continue([c EXCEPT !.at = "log_assistant"],
                     CommitRow(user,
                       [AssignRow(c.row, r) EXCEPT !.message_history_json =
                          SerializeHistory(TrimHistory(
                            DeserializeHistory(user.message_history_json) \o added))]))
       ELSE Return(c, "save", c.row, c.row, r.delegate, r.planner, user)

\* repo.save, line 207: the commit writes what the call assigned to the row
\* object it loaded, whatever the table holds by now, or raises and writes
\* nothing. The call goes on to log its reply.
SaveCommit(c, ok) ==
  LET r == Handled(c)
  IN IF ok
       THEN Continue([c EXCEPT !.at = "log_assistant"],
                     CommitRow(user, AssignRow(c.row, r)))
       ELSE Return(c, "save", c.row, c.row, r.delegate, r.planner, user)

\* Line 211 to the return: the reply is logged and the responses are
\* returned, or log_message raises and the apology is returned; the row was
\* committed at line 207 either way.
LogAssistant(c, ok) ==
  LET r == Handled(c)
  IN Return(c, IF ok THEN "none" ELSE "log_assistant", c.row,
            AssignRow(c.row, r), r.delegate, r.planner, user)

\* The step of a call that is suspended at c.at: the awaited operation
\* returns (ok) or raises.
Step(c, ok, out) ==
  CASE c.at = "insert" -> InsertCommit(c, ok)
    [] c.at = "refresh" -> Refresh(c, ok)
    [] c.at = "log_user" -> LogUser(c, ok)
    [] c.at = "agent" -> AgentRun(c, ok, out)
    [] c.at = "planner" -> PlannerRun(c, ok)
    [] c.at = "save" -> SaveCommit(c, ok)
    [] OTHER -> LogAssistant(c, ok)

\* The profile, the phase and the history of a users row.
Columns(row) ==
  <<row.profile_json, row.conversation_phase, row.message_history_json>>

\* What an outcome does to the model's variables; rest are the other calls
\* in flight. wrote is kept for the call that made the step.
Outcome(o, rest) ==
  LET changed == Columns(o.user) # Columns(user)
  IN /\ user' = o.user
     /\ inflight' =
          IF o.call = <<>> THEN rest
          ELSE rest (+) SetToBag({[o.call[1] EXCEPT !.wrote = @ \/ changed]})
     /\ IF o.turn = <<>>
          THEN UNCHANGED <<turn, turns>>
          ELSE /\ turn' = [o.turn[1] EXCEPT !.wrote = @ \/ changed]
               /\ turns' = turns + 1

\* Line 164 up to the SELECT of get_or_create (repository.py 25-28): a call
\* of handle_message begins and reads the row of the phone, or the SELECT
\* raises and the call returns the apology. A phone without a row is
\* inserted next.
Select(messages) ==
  /\ \E message \in messages, ok \in BOOLEAN :
       Outcome(IF ok
                 THEN Continue(Call(message,
                                    IF user.exists THEN "log_user" ELSE "insert",
                                    user), user)
                 ELSE Return(Call(message, "select", user), "load", user, user,
                             0, 0, user),
               inflight)
  /\ UNCHANGED otherThanTurn

\* A suspended call is resumed: its awaited operation returns or raises.
Resumes(outputs) ==
  /\ \E c \in InFlight, ok \in BOOLEAN :
     \E out \in IF c.at = "agent" /\ ok THEN outputs ELSE {NoOutput} :
       Outcome(Step(c, ok, out), Resume(c))
  /\ UNCHANGED otherThanTurn

\* The steps of at most max calls of handle_message for the phone, with
\* messages from messages and agent outputs from outputs.
HandleTurnOn(max, messages, outputs) ==
  \/ /\ turns + BagCardinality(inflight) < max
     /\ Select(messages)
  \/ Resumes(outputs)

HandleTurnWith(max, outputs) == HandleTurnOn(max, Messages, outputs)

HandleTurn(max) == HandleTurnWith(max, DelegateOutputs)

Turn == HandleTurn(MaxTurns)

TurnIdle == user = NoUser /\ turn = NoTurn /\ turns = 0 /\ inflight = EmptyBag

InitTurn == TurnIdle /\ BufferIdle /\ CallIdle

NextTurn == Turn

SpecTurn == InitTurn /\ [][NextTurn]_vars

\* Calls of a new phone with an English and a Hebrew message, on which the
\* agent returns one of two profiles and never claims completion.
MaxRaceTurns == 2

RaceOutputs ==
  [profile : {ProfileFour, ProfileFullNoSkin}, interview_complete : {FALSE},
   new_messages : {NewMessages(TRUE)}]

RaceTurn == HandleTurnOn(MaxRaceTurns, {MsgHello, MsgKen}, RaceOutputs)

SpecRace == InitTurn /\ [][RaceTurn]_vars

\* Turns on which the agent returns a profile with its own value of
\* turns_since_sufficient, a field of the UserProfile it outputs.
MaxCountedTurns == 2
MaxCounter == 1

CountedProfiles ==
  {[p EXCEPT !.turns_since_sufficient = n] :
     p \in {DefaultProfile, ProfileFour, ProfileFull}, n \in 0..MaxCounter}

CountedOutputs ==
  [profile : CountedProfiles, interview_complete : BOOLEAN,
   new_messages : {NewMessages(TRUE)}]

CountedTurn == HandleTurnWith(MaxCountedTurns, CountedOutputs)

SpecCounter == InitTurn /\ [][CountedTurn]_vars

(***************************************************************************)
(*        handle_message on a phone with a stored message history          *)
(***************************************************************************)

\* Bounds of the model: turns in a run that starts from a stored history,
\* and by how many exchanges the stored history is short of MAX_HISTORY_PAIRS
\* at most.
MaxLongTurns == 2
MaxSpare == 1

\* message_history_json after n entries of request / response exchanges.
StoredHistory(n) ==
  [i \in 1..n |-> [kind |-> IF i % 2 = 1 THEN "request" ELSE "response",
                   valid |-> TRUE]]

\* The row of a phone that has had k exchanges with the interview agent, for
\* k from MAX_HISTORY_PAIRS - MaxSpare to MAX_HISTORY_PAIRS (shorter
\* histories are those of SpecTurn).
UsersWithHistory ==
  {[NoUser EXCEPT !.exists = TRUE, !.message_history_json = StoredHistory(2 * k)] :
     k \in (MAX_HISTORY_PAIRS - MaxSpare)..MAX_HISTORY_PAIRS}

\* Agent outputs whose messages serialize (model_dump) or do not.
LongOutputs ==
  [profile : {ProfileFour}, interview_complete : {FALSE},
   new_messages : {NewMessages(TRUE), NewMessages(FALSE)}]

LongTurn == HandleTurnOn(MaxLongTurns, {MsgHello}, LongOutputs)

InitHistory ==
  /\ user \in UsersWithHistory
  /\ turn = NoTurn
  /\ turns = 0
  /\ inflight = EmptyBag
  /\ BufferIdle /\ CallIdle

SpecHistory == InitHistory /\ [][LongTurn]_vars

\* Turns of a phone whose row is already in the users table: the row holds
\* any value of ConversationPhase and a profile. The turns of a new phone
\* store no phase but interviewing (the exits of the handlers to reviewing
\* and complete raise), so the handlers of the other phases run only on rows
\* that were stored with those phases.
MaxStoredTurns == 2

StoredUsers ==
  {[NoUser EXCEPT !.exists = TRUE, !.conversation_phase = ph,
                  !.profile_json = p] :
     ph \in {"interviewing", "reviewing", "recommending", "complete"},
     p \in {ProfileFour, ProfileFull}}

StoredTurn == HandleTurn(MaxStoredTurns)

InitStored ==
  /\ user \in StoredUsers
  /\ turn = NoTurn
  /\ turns = 0
  /\ inflight = EmptyBag
  /\ BufferIdle /\ CallIdle

SpecStored == InitStored /\ [][StoredTurn]_vars

\* Turns of a phone whose stored row is in the review or the complete phase
\* and whose messages hold a signal inside a longer word.
MaxWordTurns == 2

WordUsers ==
  {[NoUser EXCEPT !.exists = TRUE, !.profile_json = p,
                  !.conversation_phase = ph] :
     p \in {ProfileFour, ProfileFull},
     ph \in {"reviewing", "complete"}}

WordTurn == HandleTurnOn(MaxWordTurns, WordMessages, DelegateOutputs)

InitWords ==
  /\ user \in WordUsers
  /\ turn = NoTurn
  /\ turns = 0
  /\ inflight = EmptyBag
  /\ BufferIdle /\ CallIdle

SpecWords == InitWords /\ [][WordTurn]_vars

(***************************************************************************)
(*      _serialize_history and _deserialize_history applied to any list    *)
(***************************************************************************)

\* Length of the lists (a bound of the model).
MaxRawLen == 3

\* Entries of a stored list: request and response dicts that model_validate
\* accepts or rejects, a dict of another kind, a dict without "kind", and an
\* entry that is no dict.
RawItems ==
  [kind : {"request", "response"}, valid : BOOLEAN]
    \cup {[kind |-> k, valid |-> FALSE] : k \in {"unknown", "missing", "not_a_dict"}}

\* What message_history_json can hold: None (none) or a list.
RawLists ==
  {[none |-> TRUE, items |-> <<>>]}
    \cup {[none |-> FALSE, items |-> items] :
            items \in UNION {[1..n -> RawItems] : n \in 0..MaxRawLen}}

\* Lists of message objects of one library build: its message classes have
\* model_dump or they do not.
Histories ==
  {[i \in 1..Len(kinds) |-> [kind |-> kinds[i], model_dump |-> d]] :
     kinds \in UNION {[1..n -> {"request", "response"}] : n \in 0..MaxRawLen},
     d \in BOOLEAN}

\* _deserialize_history(raw): "if not raw: return []", then the loop.
DeserializeStored(raw) ==
  IF raw.none \/ raw.items = <<>> THEN <<>> ELSE DeserializeHistory(raw.items)

ApplyDeserialize ==
  /\ ~result.done
  /\ arg.fn = "deserialize"
  /\ result' = [done |-> TRUE, value |-> DeserializeStored(arg.raw)]
  /\ UNCHANGED <<arg, otherThanCall>>

\* _deserialize_history(_serialize_history(history))
ApplyRoundTrip ==
  /\ ~result.done
  /\ arg.fn = "roundtrip"
  /\ result' = [done |-> TRUE,
                value |-> DeserializeStored([none |-> FALSE,
                                             items |-> SerializeHistory(arg.history)])]
  /\ UNCHANGED <<arg, otherThanCall>>

InitCodec ==
  /\ arg \in {[fn |-> "deserialize", raw |-> raw] : raw \in RawLists}
              \cup {[fn |-> "roundtrip", history |-> h] : h \in Histories}
  /\ result = NoCall
  /\ BufferIdle /\ TurnIdle

NextCodec == ApplyDeserialize \/ ApplyRoundTrip

SpecCodec == InitCodec /\ [][NextCodec]_vars

(***************************************************************************)
(*              _is_profile_sufficient applied to any profile              *)
(***************************************************************************)

Optional3 == {"null", "true", "false"}

\* Every profile over the fields a sufficiency check can read.
AllProfiles ==
  [skin_type : {"null", "oily"}, concerns : {<<>>, <<"acne">>},
   health : [is_pregnant : Optional3, is_nursing : Optional3,
             planning_pregnancy : Optional3],
   sun_exposure : {"null", "moderate"}, budget : {"null", "mid_range"},
   current_routine_morning : {"null", "soap"},
   current_routine_evening : {"null", "cream"},
   age_verified : BOOLEAN, language : {"english"}, health_screened : BOOLEAN,
   turns_since_sufficient : {0}]

ApplySufficient ==
  /\ ~result.done
  /\ result' = [done |-> TRUE, value |-> IsProfileSufficient(arg)]
  /\ UNCHANGED <<arg, otherThanCall>>

InitSufficient ==
  /\ arg \in AllProfiles
  /\ result = NoCall
  /\ BufferIdle /\ TurnIdle

SpecSufficient == InitSufficient /\ [][ApplySufficient]_vars

(***************************************************************************)
(*   app/agents/orchestrator.py: _format_missing, the "still needed" list  *)
(*   of the agent's prompt, next to _is_profile_sufficient                 *)
(***************************************************************************)

\* The line _format_missing returns when its list is empty.
AllCollected == "  (all required data collected!)"

\* _format_missing: one line for every item still needed, in the order of
\* the checks, or the all-collected line.
FormatMissing(p) ==
  LET checks ==
        << [item |-> "Age verification (must be 18+)",
            missing |-> ~p.age_verified],
           [item |-> "Skin type", missing |-> p.skin_type = "null"],
           [item |-> "Skin concerns", missing |-> p.concerns = <<>>],
           [item |-> "Pregnancy / nursing status",
            missing |-> /\ p.health.is_pregnant = "null"
                        /\ p.health.is_nursing = "null"
                        /\ p.health.planning_pregnancy = "null"],
           [item |-> "Health screening (allergies, sensitivities, medications)",
            missing |-> ~p.health_screened],
           [item |-> "Sun exposure level", missing |-> p.sun_exposure = "null"],
           [item |-> "Budget range", missing |-> p.budget = "null"],
           [item |-> "Current skincare routine (or confirmation they don't have one)",
            missing |-> /\ p.current_routine_morning = "null"
                        /\ p.current_routine_evening = "null"] >>
      IsMissing(c) == c.missing
      missing == SelectSeq(checks, IsMissing)
  IN IF missing # <<>>
       THEN [i \in 1..Len(missing) |-> missing[i].item]
       ELSE <<AllCollected>>

\* The prompt's list and the gate computed for one profile.
ApplyMissing ==
  /\ ~result.done
  /\ result' = [done |-> TRUE,
                value |-> [missing |-> FormatMissing(arg),
                           sufficient |-> IsProfileSufficient(arg)]]
  /\ UNCHANGED <<arg, otherThanCall>>

SpecMissing == InitSufficient /\ [][ApplyMissing]_vars

(***************************************************************************)
(*     schemas.ProfileUpdates applied to a profile, then the check         *)
(***************************************************************************)

\* The fields of schemas.ProfileUpdates the check can depend on; the three
\* pregnancy fields belong to the health record of the profile.
UpdateTopFields ==
  {"skin_type", "concerns", "age_verified", "sun_exposure", "budget",
   "current_routine_morning", "current_routine_evening", "health_screened"}
UpdateHealthFields == {"is_pregnant", "is_nursing", "planning_pregnancy"}

\* The merge of the Profile Merge Engine (_apply_profile_updates, which the
\* tests import and services/orchestrator.py does not define): a field of
\* the profile is overwritten only when the update sets it (is not None),
\* the health record is merged field by field; no update, no change.
\* updates.set: the fields that are not None, updates.value: their values.
ApplyProfileUpdates(profile, updates) ==
  [f \in DOMAIN profile |->
     IF f = "health"
       THEN [h \in DOMAIN profile.health |->
               IF h \in updates.set THEN updates.value.health[h]
                                    ELSE profile.health[h]]
       ELSE IF f \in updates.set THEN updates.value[f] ELSE profile[f]]

\* Values an update can carry: a full set of answers, or a correction that
\* empties the list and withdraws the two flags.
ProfileEmptied ==
  [ProfileFull EXCEPT !.concerns = <<>>, !.age_verified = FALSE,
                      !.health_screened = FALSE,
                      !.health = [is_pregnant |-> "true", is_nursing |-> "false",
                                  planning_pregnancy |-> "false"]]

AllUpdates ==
  [set : SUBSET (UpdateTopFields \cup UpdateHealthFields),
   value : {ProfileFull, ProfileEmptied}]

ApplyMerge ==
  /\ ~result.done
  /\ result' = [done |-> TRUE,
                 value |-> IsProfileSufficient(
                             ApplyProfileUpdates(arg.profile, arg.updates))]
  /\ UNCHANGED <<arg, otherThanCall>>

InitMerge ==
  /\ arg \in [profile : {DefaultProfile, ProfileFour, ProfilePregnant, ProfileFull},
               updates : AllUpdates]
  /\ result = NoCall
  /\ BufferIdle /\ TurnIdle

SpecMerge == InitMerge /\ [][ApplyMerge]_vars

(***************************************************************************)
(*          app/services/message_splitter.py: split_for_whatsapp           *)
(***************************************************************************)

\* Bounds of the model: length of the text, and the limit max_len.
MaxTextLen == 5
MaxLimit == 3

SplitAlphabet == {"a", "b", " ", "\n"}
Texts == UNION {[1..n -> SplitAlphabet] : n \in 0..MaxTextLen}

DigitChar(d) ==
  CASE d = 0 -> "0" [] d = 1 -> "1" [] d = 2 -> "2" [] d = 3 -> "3"
    [] d = 4 -> "4" [] d = 5 -> "5" [] d = 6 -> "6" [] d = 7 -> "7"
    [] d = 8 -> "8" [] OTHER -> "9"

\* str(n) for n >= 0.
RECURSIVE Digits(_)
Digits(n) ==
  IF n < 10 THEN <<DigitChar(n)>>
  ELSE Digits(n \div 10) \o <<DigitChar(n % 10)>>

\* text.split("\n\n"): cut at each non-overlapping "\n\n", left to right.
\* (cur: what was read of the current piece; the first separator is found
\* by position, so that the recursion is one level for each piece.)
RECURSIVE SplitParagraphs(_, _)
SplitParagraphs(text, cur) ==
  LET seps == {i \in 1..(Len(text) - 1) : text[i] = "\n" /\ text[i + 1] = "\n"}
  IN IF seps = {} THEN <<cur \o text>>
     ELSE LET first == CHOOSE i \in seps : \A j \in seps : i <= j
          IN <<cur \o SubSeq(text, 1, first - 1)>>
               \o SplitParagraphs(SubSeq(text, first + 2, Len(text)), <<>>)

\* para.split("\n")
RECURSIVE SplitLines(_, _)
SplitLines(text, cur) ==
  LET seps == {i \in 1..Len(text) : text[i] = "\n"}
  IN IF seps = {} THEN <<cur \o text>>
     ELSE LET first == CHOOSE i \in seps : \A j \in seps : i <= j
          IN <<cur \o SubSeq(text, 1, first - 1)>>
               \o SplitLines(SubSeq(text, first + 1, Len(text)), <<>>)

\* while line: parts.append(line[:max_len]); line = line[max_len:]
RECURSIVE HardSplit(_, _)
HardSplit(line, max_len) ==
  IF line = <<>> THEN <<>>
  ELSE IF Len(line) <= max_len THEN <<line>>
  ELSE <<SubSeq(line, 1, max_len)>>
         \o HardSplit(SubSeq(line, max_len + 1, Len(line)), max_len)

\* if current: parts.append(current.strip())
AppendCurrent(parts, current) ==
  IF current # <<>> THEN Append(parts, Strip(current)) ELSE parts

\* The loop over the lines of a paragraph longer than max_len (lines 35-49).
\* st is [parts, current].
RECURSIVE LineLoop(_, _, _)
LineLoop(lines, st, max_len) ==
  IF lines = <<>> THEN st
  ELSE
    LET line == Head(lines)
        candidate == IF st.current # <<>>
                       THEN st.current \o <<"\n">> \o line ELSE line
        next ==
          IF Len(candidate) <= max_len
            THEN [parts |-> st.parts, current |-> candidate]
          ELSE IF Len(line) > max_len
            THEN [parts |-> AppendCurrent(st.parts, st.current)
                              \o HardSplit(line, max_len),
                  current |-> <<>>]
            ELSE [parts |-> AppendCurrent(st.parts, st.current),
                  current |-> line]
    IN LineLoop(Tail(lines), next, max_len)

\* The loop over the paragraphs (lines 24-51).
RECURSIVE ParagraphLoop(_, _, _)
ParagraphLoop(paragraphs, st, max_len) ==
  IF paragraphs = <<>> THEN st
  ELSE
    LET para == Head(paragraphs)
        candidate == IF st.current # <<>>
                       THEN st.current \o <<"\n", "\n">> \o para ELSE para
        next ==
          IF Len(candidate) <= max_len
            THEN [parts |-> st.parts, current |-> candidate]
          ELSE IF Len(para) > max_len
            THEN LineLoop(SplitLines(para, <<>>),
                          [parts |-> AppendCurrent(st.parts, st.current),
                           current |-> <<>>],
                          max_len)
            ELSE [parts |-> AppendCurrent(st.parts, st.current),
                  current |-> para]
    IN ParagraphLoop(Tail(paragraphs), next, max_len)

\* if current.strip(): parts.append(current.strip())
FlushCurrent_Drop(parts, current) == parts

FlushCurrent(parts, current) ==
  IF Strip(current) # <<>> THEN Append(parts, Strip(current)) ELSE parts

\* An indicator with its two numbers exchanged.
PartIndicator_Swapped(i, total) ==
  <<"(">> \o Digits(total) \o <<"/">> \o Digits(i) \o <<")", "\n">>

\* f"({i + 1}/{total})\n": the part indicator put before a part.
PartIndicator(i, total) ==
  <<"(">> \o Digits(i) \o <<"/">> \o Digits(total) \o <<")", "\n">>

\* Parts returned without indicators.
AddIndicators_Off(parts) == parts

\* Add part indicators when there is more than one part (lines 60-62).
AddIndicators(parts) ==
  IF Len(parts) > 1
    THEN [i \in 1..Len(parts) |-> PartIndicator(i, Len(parts)) \o parts[i]]
    ELSE parts

\* A segmenter that cuts by size alone.
SplitForWhatsapp_Slices(text, max_len) ==
  IF Len(text) <= max_len THEN <<text>>
  ELSE AddIndicators(HardSplit(text, max_len))

\* A segmenter that returns as-is only below the limit.
SplitForWhatsapp_BelowLimit(text, max_len) ==
  IF Len(text) < max_len THEN <<text>>
  ELSE
    LET st == ParagraphLoop(SplitParagraphs(text, <<>>),
                            [parts |-> <<>>, current |-> <<>>], max_len)
        parts == FlushCurrent(st.parts, st.current)
    IN IF parts = <<>> THEN <<SubSeq(text, 1, max_len)>>
       ELSE AddIndicators(parts)

\* split_for_whatsapp(text, max_len)
SplitForWhatsapp(text, max_len) ==
  IF Len(text) <= max_len THEN <<text>>
  ELSE
    LET st == ParagraphLoop(SplitParagraphs(text, <<>>),
                            [parts |-> <<>>, current |-> <<>>], max_len)
        parts == FlushCurrent(st.parts, st.current)
    IN IF parts = <<>> THEN <<SubSeq(text, 1, max_len)>>
       ELSE AddIndicators(parts)

ApplySplit ==
  /\ ~result.done
  /\ result' = [done |-> TRUE, value |-> SplitForWhatsapp(arg.text, arg.max_len)]
  /\ UNCHANGED <<arg, otherThanCall>>

InitSplit ==
  /\ arg \in [text : Texts, max_len : 1..MaxLimit]
  /\ result = NoCall
  /\ BufferIdle /\ TurnIdle

SpecSplit == InitSplit /\ [][ApplySplit]_vars

\* The scenario of a long answer: max_len 1500 (the default of
\* split_for_whatsapp) and a text of 4000 characters: five paragraphs of
\* about 800 characters (798 up to MaxSpread more or less) and the four
\* blank lines between them.
ScenarioLimit == 1500
MaxSpread == 2

ScenarioLengths ==
  {lens \in [1..5 -> (798 - MaxSpread)..(798 + MaxSpread)] :
     lens[1] + lens[2] + lens[3] + lens[4] + lens[5] + 2 * 4 = 4000}

\* The paragraphs "aa...a" of the given lengths joined by "\n\n".
RECURSIVE ParagraphEnd(_, _)
ParagraphEnd(lens, k) ==
  IF k = 0 THEN 0 ELSE ParagraphEnd(lens, k - 1) + lens[k] + 2

ScenarioText(lens) ==
  LET ends == {ParagraphEnd(lens, k) : k \in 1..4}
  IN [i \in 1..4000 |->
        IF i \in ends \/ (i + 1) \in ends THEN "\n" ELSE "a"]

InitScenario ==
  /\ arg \in {[text |-> ScenarioText(lens), max_len |-> ScenarioLimit] :
                lens \in ScenarioLengths}
  /\ result = NoCall
  /\ BufferIdle /\ TurnIdle

SpecScenario == InitScenario /\ [][ApplySplit]_vars

InitBuffer == BufferIdle /\ TurnIdle /\ CallIdle

SpecBuffer == InitBuffer /\ [][NextBuffer]_vars

\* The buffer with a clock that runs on after the last fragment: fragments
\* arrive up to tick MaxTime, the clock goes on for another quiet window.
\* A flush is followed up to the point where it has taken its fragments.
\* The event loop resumes a task whose sleep is over (weak fairness of
\* ProcessBuffer), and time passes (weak fairness of the clock).
LateTick ==
  /\ now >= MaxTime
  /\ now < MaxTime + DEBOUNCE_TICKS
  /\ now' = now + 1
  /\ UNCHANGED <<message_buffers, debounce_tasks, tasks, nextId, otherThanBuffer>>

NextLive ==
  \/ \E p \in Identities : now <= MaxTime /\ Webhook(p)
  \/ \E t \in TaskIds : ProcessBuffer(t)
  \/ Tick
  \/ LateTick

SpecLive ==
  /\ InitBuffer
  /\ [][NextLive]_vars
  /\ WF_vars(Tick)
  /\ WF_vars(LateTick)
  /\ \A t \in TaskIds : WF_vars(ProcessBuffer(t))

\* The webhook with fragments that carry an attachment, up to the point
\* where a flush has taken its fragments out of the buffer (what the flush
\* does with them afterwards is NextBuffer's part).
NextMedia ==
  \/ \E p \in Identities : Webhook(p)
  \/ \E p \in Identities : WebhookMedia(p)
  \/ \E id \in TaskIds : DownloadDone(id)
  \/ \E t \in TaskIds : ProcessBuffer(t)
  \/ Tick

SpecMedia == InitBuffer /\ [][NextMedia]_vars

(***************************************************************************)
(*                                 Claims                                  *)
(***************************************************************************)

\* ---- observations on the buffer model ----

Created(t) == tasks[t].state # "none"
IngestedAt(t) == tasks[t].wake - DEBOUNCE_TICKS
Flushed(t) == tasks[t].state \in {"session", "handling", "sending", "done"}
FragmentIds(t) == {tasks[t].messages[i].id : i \in 1..Len(tasks[t].messages)}

\* C1: debounce. For one phone, when a second fragment is ingested before
\* the quiet window has elapsed since the first, the first fragment's timer
\* never flushes; the two fragments are handed over by one and the same
\* flush, no fragment is in two flushes, and a flush happens no earlier than
\* the window after each fragment it contains (so after the last one).
C1_Debounce ==
  /\ \A t1, t2 \in TaskIds :
       ( /\ Created(t1) /\ Created(t2) /\ t1 < t2
         /\ tasks[t1].phone = tasks[t2].phone
         /\ IngestedAt(t2) < IngestedAt(t1) + DEBOUNCE_TICKS )
       => /\ ~Flushed(t1)
          /\ \A t \in TaskIds :
               (Flushed(t) /\ (t1 \in FragmentIds(t) \/ t2 \in FragmentIds(t)))
                 => {t1, t2} \subseteq FragmentIds(t)
  /\ \A t, u \in TaskIds :
       (Flushed(t) /\ Flushed(u) /\ t # u) => FragmentIds(t) \cap FragmentIds(u) = {}
  /\ \A t \in TaskIds :
       Flushed(t) =>
         \A i \in 1..Len(tasks[t].messages) :
           tasks[t].flushedAt >= tasks[t].messages[i].at + DEBOUNCE_TICKS

\* Fragments at ticks 0 and 1 (0 s and 0.5 s) of one phone, flushed together.
C1_Witness ==
  \E t \in TaskIds :
    /\ Flushed(t)
    /\ Len(tasks[t].messages) = 2
    /\ tasks[t].messages[1].at = 0
    /\ tasks[t].messages[2].at = 1
    /\ tasks[t].flushedAt >= 1 + DEBOUNCE_TICKS

\* C6: a response is always produced. Every flush of a non-empty buffer that
\* has run to its end made at least one outbound send_message call to the
\* phone, whichever step of the pipeline failed.
C6_AlwaysAnswered ==
  \A t \in TaskIds :
    (tasks[t].state = "done" /\ tasks[t].messages # <<>>) => tasks[t].calls >= 1

\* The flushes of a phone that are scheduled: waiting in asyncio.sleep, not
\* started and not cancelled.
Scheduled(phone) ==
  {t \in TaskIds : tasks[t].phone = phone /\ tasks[t].state = "sleeping"}

\* C17: at every moment a phone has at most one scheduled flush, and it is
\* the one ingested last: every earlier timer of the phone has been cancelled
\* or has started its flush.
C17_OneScheduledFlush ==
  \A phone \in Identities :
    /\ Cardinality(Scheduled(phone)) <= 1
    /\ \A t \in Scheduled(phone) : debounce_tasks[phone] = t
    /\ \A t, u \in TaskIds :
         (Created(t) /\ Created(u) /\ t < u /\ tasks[t].phone = phone
            /\ tasks[u].phone = phone)
           => tasks[t].state # "sleeping"

\* A phone whose first timer was cancelled by a second fragment, with the
\* second timer waiting.
C17_Witness ==
  \E t, u \in TaskIds :
    /\ t < u
    /\ tasks[t].phone = tasks[u].phone
    /\ tasks[t].state = "cancelled"
    /\ tasks[u].state = "sleeping"

\* The ids of the fragments in a list of pending messages.
PendingIds(messages) == {messages[i].id : i \in 1..Len(messages)}

\* C21: a flush that has started is never cancelled and keeps the fragments
\* it took; a fragment ingested for its phone while it executes leaves the
\* flush's task as it is, is buffered apart from the fragments of the flush
\* and gets a new, registered timer of its own.
C21_ExecutingFlushNotCancelled ==
  [][\A t \in TaskIds :
       Flushed(t) =>
         /\ tasks'[t].state # "cancelled"
         /\ tasks'[t].messages = tasks[t].messages
         /\ nextId' # nextId =>
              /\ tasks'[t] = tasks[t]
              /\ PendingIds(message_buffers'[tasks[t].phone]) \cap FragmentIds(t) = {}
              /\ \A p \in Identities :
                   message_buffers'[p] # message_buffers[p] =>
                     /\ debounce_tasks'[p] = nextId
                     /\ tasks'[nextId].state = "sleeping"
                     /\ tasks'[nextId].wake = now + DEBOUNCE_TICKS]_vars

\* A flush is executing and a fragment ingested after it began waits in the
\* buffer with its own timer.
C21_Witness ==
  \E t, u \in TaskIds :
    /\ tasks[t].phone = tasks[u].phone
    /\ tasks[t].state \in {"session", "handling", "sending"}
    /\ tasks[u].state = "sleeping"
    /\ debounce_tasks[tasks[u].phone] = u
    /\ PendingIds(message_buffers[tasks[u].phone]) = {u}

\* The fragments appended to a buffer so far, the flushes that took a
\* fragment and the buffers that hold it.
Appended == (1..(nextId - 1)) \ {d.id : d \in downloading}
Holders(id) == {t \in TaskIds : Flushed(t) /\ id \in FragmentIds(t)}
Buffering(id) == {p \in Identities : id \in PendingIds(message_buffers[p])}
Times(messages, id) ==
  Cardinality({i \in 1..Len(messages) : messages[i].id = id})

\* C33: every fragment appended to a buffer is handed over by exactly one
\* flush. At every moment an appended fragment is, once, either in the buffer
\* of its phone, where a scheduled flush of that phone will take it, or in
\* the messages of one flush of its phone; and a fragment taken by a flush
\* stays with that flush and is never in a buffer again, however the flush
\* ends.
C33_ExactlyOneFlush ==
  /\ [](\A id \in Appended :
          LET holders == Holders(id)
              buffering == Buffering(id)
          IN /\ Cardinality(holders) + Cardinality(buffering) = 1
             /\ \A t \in holders :
                  tasks[t].phone = tasks[id].phone /\ Times(tasks[t].messages, id) = 1
             /\ \A p \in buffering :
                  /\ p = tasks[id].phone
                  /\ Times(message_buffers[p], id) = 1
                  /\ debounce_tasks[p] # NoTask
                  /\ tasks[debounce_tasks[p]].state = "sleeping")
  /\ [][\A t \in TaskIds :
         (Flushed(t) /\ tasks[t].messages # <<>>)
           => /\ tasks'[t].messages = tasks[t].messages
              /\ tasks'[t].state \notin {"none", "sleeping", "cancelled"}
              /\ \A p \in Identities :
                   PendingIds(message_buffers'[p]) \cap FragmentIds(t) = {}]_vars

\* A fragment whose timer was cancelled by a second fragment was flushed with
\* it by the second timer, the turn failed, and the buffer of the phone is
\* empty.
C33_Witness ==
  \E t, u \in TaskIds :
    /\ tasks[t].phone = tasks[u].phone
    /\ tasks[t].state = "cancelled"
    /\ tasks[u].state = "done" /\ tasks[u].error
    /\ FragmentIds(u) = {t, u}
    /\ message_buffers[tasks[u].phone] = <<>>

\* C34: flush liveness. Whenever a phone has pending fragments, eventually
\* its buffer is empty and no timer is registered for it; and a waiting
\* timer is put off only by a newer fragment of its own phone: its wake time
\* never changes, and a step that cancels it is the webhook of a fragment of
\* the same phone, which registers the timer that replaces it.
C34_FlushLiveness ==
  /\ \A p \in Identities :
       (message_buffers[p] # <<>>)
         ~> (message_buffers[p] = <<>> /\ debounce_tasks[p] = NoTask)
  /\ [][\A t \in TaskIds :
         tasks[t].state = "sleeping"
           => /\ tasks'[t].wake = tasks[t].wake
              /\ tasks'[t].state = "sleeping"
                   \/ (tasks'[t].state \in {"session", "done"}
                         /\ now >= tasks[t].wake)
                   \/ ( /\ tasks'[t].state = "cancelled"
                        /\ nextId' = nextId + 1
                        /\ tasks'[nextId].phone = tasks[t].phone
                        /\ tasks'[nextId].state = "sleeping"
                        /\ debounce_tasks'[tasks[t].phone] = nextId )]_vars

\* A phone whose first timer was put off by a second fragment has been
\* flushed: both fragments were taken by the second timer, its buffer is
\* empty and it has no registered timer, while the other phone's fragment
\* was flushed by its own timer.
C34_Witness ==
  \E t, u, v \in TaskIds :
    /\ tasks[t].phone = tasks[u].phone
    /\ tasks[v].phone # tasks[u].phone
    /\ tasks[t].state = "cancelled"
    /\ Flushed(u) /\ FragmentIds(u) = {t, u}
    /\ Flushed(v) /\ FragmentIds(v) = {v}
    /\ \A p \in Identities :
         message_buffers[p] = <<>> /\ debounce_tasks[p] = NoTask

\* C36: registry consistency. At every suspension point a phone has an entry
\* in the timer registry exactly if its buffer is non-empty; the entry is a
\* waiting timer of that phone, so no fragment is stranded without a timer,
\* and no timer has fired on an empty buffer: every flush that ran took at
\* least one fragment.
C36_RegistryConsistency ==
  /\ \A p \in Identities :
       /\ debounce_tasks[p] # NoTask <=> message_buffers[p] # <<>>
       /\ debounce_tasks[p] # NoTask =>
            /\ tasks[debounce_tasks[p]].phone = p
            /\ tasks[debounce_tasks[p]].state = "sleeping"
  /\ \A t \in TaskIds :
       /\ tasks[t].state = "sleeping" => debounce_tasks[tasks[t].phone] = t
       /\ Flushed(t) => tasks[t].messages # <<>>

\* One phone has been flushed and has neither pending fragments nor a
\* registered timer, while the other has a pending fragment and its timer.
C36_Witness ==
  \E t, u \in TaskIds :
    /\ tasks[t].phone # tasks[u].phone
    /\ Flushed(t)
    /\ message_buffers[tasks[t].phone] = <<>>
    /\ debounce_tasks[tasks[t].phone] = NoTask
    /\ message_buffers[tasks[u].phone] # <<>>
    /\ debounce_tasks[tasks[u].phone] = u

\* C29: the calls of the gateway made for a flush are at most one for each
\* returned part, all to the phone of the flush, for the parts 1, 2, ... in
\* list order, and only the last call made can be a failed one: the parts
\* sent are a prefix of the list, never reordered or repeated.
C29_DispatchOrder ==
  \A t \in TaskIds :
    /\ Len(tasks[t].sent) <= tasks[t].parts
    /\ \A i \in 1..Len(tasks[t].sent) :
         /\ tasks[t].sent[i].to = tasks[t].phone
         /\ tasks[t].sent[i].part = i
         /\ i < Len(tasks[t].sent) => tasks[t].sent[i].ok

\* A flush of two parts whose first send was taken and whose second send
\* failed, and a flush of another phone whose first send failed: its second
\* part was skipped.
C29_Witness ==
  \E t, u \in TaskIds :
    /\ tasks[t].phone # tasks[u].phone
    /\ tasks[t].state = "done" /\ tasks[t].parts = 2
    /\ Len(tasks[t].sent) = 2
    /\ tasks[t].sent[1].ok /\ ~tasks[t].sent[2].ok
    /\ tasks[u].state = "done" /\ tasks[u].parts = 2
    /\ Len(tasks[u].sent) = 1 /\ ~tasks[u].sent[1].ok

\* C18: on flush the message handed over is the texts of the buffered
\* fragments in the order in which the fragments arrived at the webhook, and
\* the attachment is that of the first arrived fragment of the flush that
\* has one, also when a fragment arrives while an earlier one is still
\* downloading its attachment.
C18_ArrivalOrder ==
  \A t \in TaskIds :
    Flushed(t) =>
      /\ LET text == CombinedText(tasks[t].messages)
         IN /\ {text[i] : i \in 1..Len(text)} =
                 {tasks[t].messages[i].text : i \in 1..Len(tasks[t].messages)} \ {0}
            /\ \A i, j \in 1..Len(text) : i < j => text[i] < text[j]
      /\ \A i \in 1..Len(tasks[t].messages) :
           tasks[t].messages[i].image_data # "null"
             => FirstImage(tasks[t].messages) <= tasks[t].messages[i].id

\* A step of the flush of task t.
FlushStep(t) == Flushed(t) /\ tasks'[t] # tasks[t]

\* Whenever the flush of one phone has ended with an exception, every flush
\* of a non-empty buffer of another phone that has ended made at least one
\* outbound send_message call.
AnsweredBesideFailure ==
  \A t, u \in TaskIds :
    ( /\ tasks[t].state = "done" /\ tasks[t].error
      /\ tasks[u].phone # tasks[t].phone
      /\ tasks[u].state = "done" /\ tasks[u].messages # <<>> )
    => tasks[u].calls >= 1

\* C19: cross-identity isolation. A step of one phone's flush, a raising one
\* included, leaves the buffer, the registered timer, the tasks and the
\* users row of every other phone as they were, and the flush of another
\* phone runs and is answered although a flush has raised.
C19_CrossIdentityIsolation ==
  [][ /\ \A t \in TaskIds :
           FlushStep(t) =>
             /\ user' = user
             /\ \A p \in Identities \ {tasks[t].phone} :
                  /\ message_buffers'[p] = message_buffers[p]
                  /\ debounce_tasks'[p] = debounce_tasks[p]
                  /\ \A u \in TaskIds : tasks[u].phone = p => tasks'[u] = tasks[u]
      /\ AnsweredBesideFailure' ]_vars

Loads(c) ==
  c.at = "log_user" /\ CopiesIn(c, inflight') > CopiesIn(c, inflight)

LocalizedApology(language) ==
  IF language = "hebrew" THEN "apology in Hebrew" ELSE Apology

\* C23: the reply of a turn that failed is the one-part apology in the
\* language detected for the user (Hebrew for a message with Hebrew
\* letters, English otherwise).
C23_LocalizedApology ==
  (turns > 0 /\ turn.raisedAt # "none")
    => turn.responses = <<LocalizedApology(MessageFacts[turn.message].language)>>

\* Call c committed its save in this step.
Saves(c) ==
  /\ c.at = "save"
  /\ \E w \in BOOLEAN :
       inflight' = Resume(c) (+) SetToBag({[c EXCEPT !.at = "log_assistant",
                                                      !.wrote = w]})

DelegatePathTurn(t) == t.delegate > 0 /\ t.raisedAt = "none"

\* Top-level profile fields an agent output can carry, and the fields of the
\* nested health record.
ProfileFields ==
  {"skin_type", "concerns", "sun_exposure", "budget", "current_routine_morning",
   "current_routine_evening", "age_verified", "health_screened"}

HealthFields == {"is_pregnant", "is_nursing", "planning_pregnancy"}

\* Turns past sufficiency after which the interview is wrapped up
\* (OrchestratorDeps.force_summarize: "True when 2+ turns past sufficiency").
SUFFICIENCY_TURNS == 2

\* The sufficiency predicate as it is specified: every required category of
\* the profile has been collected.
SufficientAsSpecified(profile) ==
  /\ profile.age_verified
  /\ profile.skin_type # "null"
  /\ profile.concerns # <<>>
  /\ \/ profile.health.is_pregnant # "null"
     \/ profile.health.is_nursing # "null"
     \/ profile.health.planning_pregnancy # "null"
  /\ profile.health_screened
  /\ profile.sun_exposure # "null"
  /\ profile.budget # "null"
  /\ \/ profile.current_routine_morning # "null"
     \/ profile.current_routine_evening # "null"

C3_RestartPrecedence ==
  (turns > 0 /\ turn.raisedAt = "none" /\ MessageFacts[turn.message].restart)
    => /\ turn.delegate = 0
       /\ turn.planner = 0
       /\ turn.stored.conversation_phase = "interviewing"
       /\ turn.stored.profile_json = NewProfile(turn.stored.profile_json.language)
       /\ turn.stored.message_history_json = <<>>

\* C4: merge non-destructiveness. After a delegate-path turn, every profile
\* field, top-level or in the health record, that the agent's output left
\* unset (at its null / empty default) has in the profile the turn stored the
\* value it had in the row the turn loaded.
C4_MergeNonDestructive ==
  [][ DelegatePathTurn(turn') =>
        /\ \A f \in ProfileFields :
             turn'.out.profile[f] = DefaultProfile[f]
               => turn'.stored.profile_json[f] = turn'.row.profile_json[f]
        /\ \A h \in HealthFields :
             turn'.out.profile.health[h] = DefaultHealth[h]
               => turn'.stored.profile_json.health[h] = turn'.row.profile_json.health[h] ]_vars

\* C35: whenever handle_message returns the apology for a turn, whichever
\* step raised, the turn committed no change: the profile, phase and history
\* of the row as the turn left it are those of the row it loaded.
C35_ApologyMeansNoCommit ==
  [][ (turns' = turns + 1 /\ turn'.responses = <<Apology>>) =>
        /\ turn'.stored.profile_json = turn'.row.profile_json
        /\ turn'.stored.conversation_phase = turn'.row.conversation_phase
        /\ turn'.stored.message_history_json = turn'.row.message_history_json ]_vars

\* C32: the agent's profile updates are applied on every delegate-path
\* turn, in any phase. After a delegate-path turn, every profile field,
\* top-level or in the health record, that the agent's output set (to other
\* than its null / empty default) has the agent's value in the stored profile.
C32_UpdatesAppliedEveryPhase ==
  [][ DelegatePathTurn(turn') =>
        /\ \A f \in ProfileFields :
             turn'.out.profile[f] # DefaultProfile[f]
               => turn'.stored.profile_json[f] = turn'.out.profile[f]
        /\ \A h \in HealthFields :
             turn'.out.profile.health[h] # DefaultHealth[h]
               => turn'.stored.profile_json.health[h] = turn'.out.profile.health[h] ]_vars

C9_PhaseThreshold ==
  [][ (turn'.row.conversation_phase = "interviewing" /\ turn'.raisedAt = "none"
         /\ turns' = turns + 1)
        => /\ (turn'.stored.conversation_phase = "reviewing")
                <=> (turn'.stored.profile_json.turns_since_sufficient >= SUFFICIENCY_TURNS)
           /\ (turn'.stored.conversation_phase = "reviewing")
                => SufficientAsSpecified(turn'.row.profile_json)
           /\ (SufficientAsSpecified(turn'.row.profile_json)
                 /\ SufficientAsSpecified(turn'.stored.profile_json))
                => turn'.stored.profile_json.turns_since_sufficient =
                     turn'.row.profile_json.turns_since_sufficient + 1 ]_vars

\* C24: after a turn that persisted a profile on which the sufficiency
\* predicate is false, the persisted turns_since_sufficient is 0.
C24_CounterReset ==
  (turns > 0 /\ turn.raisedAt \in {"none", "log_assistant"}
     /\ ~SufficientAsSpecified(turn.stored.profile_json))
    => turn.stored.profile_json.turns_since_sufficient = 0

\* The update leaves each required field non-empty: a required field it
\* sets gets a value (a list with an entry, a flag that is true, an answer
\* to a health question, True or False). A field it does not set is None in
\* the update.
KeepsNonEmpty(updates) ==
  /\ "concerns" \in updates.set => updates.value.concerns # <<>>
  /\ "age_verified" \in updates.set => updates.value.age_verified
  /\ "health_screened" \in updates.set => updates.value.health_screened
  /\ \A f \in updates.set \ {"concerns", "age_verified", "health_screened"} :
       IF f \in UpdateHealthFields THEN updates.value.health[f] # "null"
                                   ELSE updates.value[f] # "null"

C30_LegacyPhaseFolded ==
  [][ (turn'.row.conversation_phase = "recommending" /\ turns' = turns + 1)
        => /\ turn'.planner = 0
           /\ turn'.stored.conversation_phase # "complete" ]_vars

\* A word character of a word-boundary pattern: a letter, as opposed to
\* whitespace and punctuation.
IsWordChar(ch) == ch \notin {" ", "\n", "\t", "!", "'", ",", ".", "?"}

\* sig occurs in text as whole word(s): no letter directly before or after.
ContainsWord(text, sig) ==
  \E i \in 0..(Len(text) - Len(sig)) :
    /\ \A j \in 1..Len(sig) : text[i + j] = sig[j]
    /\ i > 0 => ~IsWordChar(text[i])
    /\ i + Len(sig) < Len(text) => ~IsWordChar(text[i + Len(sig) + 1])

AnyWholeWord(signals, text) ==
  \E k \in 1..Len(signals) : ContainsWord(Strip(Lower(text)), signals[k])

\* C31: the restart and the confirmation fast path fire only when a signal
\* occurs in the message as whole word(s): a turn of the complete phase whose
\* message holds no restart signal as a word is not answered by the restart,
\* and a turn of the review phase whose message holds no confirmation signal
\* as a word does not call the routine planner.
C31_WordBoundarySignals ==
  [][ (turns' = turns + 1 /\ turn'.raisedAt \in {"none", "profile_field"})
        => /\ (turn'.phase = "complete"
                 /\ ~AnyWholeWord(restart_signals, turn'.message))
                => turn'.responses # <<"restart">>
           /\ (turn'.phase = "reviewing"
                 /\ ~AnyWholeWord(confirm_signals, turn'.message))
                => turn'.planner = 0 ]_vars

HandlerRan(t) == t.raisedAt \notin {"load", "log_user"}

\* C12: the reviewing rule. On a turn handled in reviewing, a confirmation
\* calls the routine planner exactly once and not the interview agent, and
\* unless the planner, the save or the log raised the turn ends in complete;
\* any other message goes to the interview agent, the planner is not called
\* and the phase stays reviewing.
C12_ReviewingRule ==
  (turns > 0 /\ turn.phase = "reviewing" /\ HandlerRan(turn)) =>
     IF MessageFacts[turn.message].confirm
       THEN /\ turn.planner = 1
            /\ turn.delegate = 0
            /\ turn.raisedAt \in {"none", "profile_field"} =>
                 turn.stored.conversation_phase = "complete"
       ELSE /\ turn.delegate = 1
            /\ turn.planner = 0
            /\ turn.stored.conversation_phase = "reviewing"

\* C13: the detail fast path of the complete phase. A turn handled in
\* complete whose message matches a detail signal (and no restart signal),
\* and on which neither the save nor the log raised, is answered with the
\* detailed routine without an agent or planner call and leaves the phase
\* complete.
C13_DetailFastPath ==
  [][ ( /\ turns' = turns + 1
        /\ turn'.row.conversation_phase = "complete"
        /\ MessageFacts[turn'.message].detail
        /\ ~MessageFacts[turn'.message].restart
        /\ turn'.raisedAt \in {"none", "profile_field"} )
      => /\ turn'.responses = <<"detailed">>
         /\ turn'.delegate = 0
         /\ turn'.planner = 0
         /\ turn'.stored.conversation_phase = "complete" ]_vars

\* The entries the last turn added to the history it loaded.
NewEntries(t) == IF t.delegate > 0 THEN t.out.new_messages ELSE <<>>

\* The last n entries of a history (all of it when it is shorter).
LastEntries(history, n) ==
  IF Len(history) > n THEN SubSeq(history, Len(history) - n + 1, Len(history))
  ELSE history

\* The turn took the restart branch of _handle_complete.
RestartTurn(t) == t.phase = "complete" /\ MessageFacts[t.message].restart

\* C14: the history bound. The stored history never holds more than
\* 2 * MAX_HISTORY_PAIRS entries, so the history a turn loads and passes to
\* the agent never does; the history a successful turn stores is the last
\* 2 * MAX_HISTORY_PAIRS entries of the history it loaded followed by the
\* entries the turn added, in order (a restart empties it).
C14_HistoryBound ==
  [][ /\ Len(user'.message_history_json) <= 2 * MAX_HISTORY_PAIRS
      /\ turn'.loaded <= 2 * MAX_HISTORY_PAIRS
      /\ (turns' = turns + 1 /\ turn'.raisedAt = "none") =>
           \E added \in {NewEntries(turn')} :
             turn'.stored.message_history_json =
               IF RestartTurn(turn') THEN <<>>
               ELSE SerializeHistory(
                      LastEntries(DeserializeHistory(turn'.row.message_history_json)
                                    \o added,
                                  2 * MAX_HISTORY_PAIRS)) ]_vars

\* A turn loaded a full history, added an exchange, and the stored history is
\* again full: the oldest exchange was dropped.
C14_Witness ==
  /\ turns > 0
  /\ turn.raisedAt = "none"
  /\ turn.loaded = 2 * MAX_HISTORY_PAIRS
  /\ turn.delegate = 1
  /\ Len(user.message_history_json) = 2 * MAX_HISTORY_PAIRS

\* ---- observations on the history codec ----

\* Positions of a stored list whose entry is a request or response dict that
\* validates.
ValidPositions(items) ==
  {i \in 1..Len(items) :
     items[i].kind \in {"request", "response"} /\ items[i].valid}

\* The j-th valid position, in the order of the list.
NthValid(items, j) ==
  CHOOSE i \in ValidPositions(items) :
    Cardinality({k \in ValidPositions(items) : k <= i}) = j

\* C15: deserialization never raises. For every stored value - None, the
\* empty list, lists with entries that are no dicts, dicts of unknown or
\* missing kind, and dicts that fail validation - _deserialize_history
\* returns, and what it returns are the valid request / response entries in
\* their original relative order, all others dropped.
C15_DeserializeTolerant ==
  (result.done /\ arg.fn = "deserialize") =>
     /\ Len(result.value) = Cardinality(ValidPositions(arg.raw.items))
     /\ \A j \in 1..Len(result.value) :
          result.value[j].kind = arg.raw.items[NthValid(arg.raw.items, j)].kind

\* A list with a valid response, an entry that is no dict and a valid
\* request gave the response and the request.
C15_Witness ==
  /\ result.done
  /\ arg.fn = "deserialize"
  /\ arg.raw.items = <<[kind |-> "response", valid |-> TRUE],
                       [kind |-> "not_a_dict", valid |-> FALSE],
                       [kind |-> "request", valid |-> TRUE]>>
  /\ result.value = <<ModelResponse, ModelRequest>>

\* C16: codec round trip. For every sequence of request / response messages,
\* deserializing the serialized sequence gives a sequence of the same length
\* with the same kind at every position.
C16_CodecRoundTrip ==
  (result.done /\ arg.fn = "roundtrip") =>
     /\ Len(result.value) = Len(arg.history)
     /\ \A i \in 1..Len(arg.history) : result.value[i].kind = arg.history[i].kind

\* ---- observations on split_for_whatsapp ----

\* A returned chunk without its part indicator "(i/N)\n" (chunks carry one
\* when there are several).
ChunkBody(chunks, i) ==
  IF Len(chunks) > 1
    THEN SubSeq(chunks[i], Len(PartIndicator(i, Len(chunks))) + 1, Len(chunks[i]))
    ELSE chunks[i]

RECURSIVE ConcatBodies(_, _)
ConcatBodies(chunks, i) ==
  IF i > Len(chunks) THEN <<>>
  ELSE ChunkBody(chunks, i) \o ConcatBodies(chunks, i + 1)

AllSpace(text) == \A i \in 1..Len(text) : IsSpace(text[i])

\* text, from position pos on, is the bodies i.. of chunks in order with only
\* whitespace before, between and after them.
RECURSIVE BodiesWithGaps(_, _, _, _)
BodiesWithGaps(text, pos, chunks, i) ==
  IF i > Len(chunks) THEN AllSpace(SubSeq(text, pos, Len(text)))
  ELSE
    LET body == ChunkBody(chunks, i)
    IN \E gap \in 0..(Len(text) - pos + 1 - Len(body)) :
         /\ AllSpace(SubSeq(text, pos, pos + gap - 1))
         /\ SubSeq(text, pos + gap, pos + gap + Len(body) - 1) = body
         /\ BodiesWithGaps(text, pos + gap + Len(body), chunks, i + 1)

\* C7, as claimed: removing the part indicator of every chunk and
\* concatenating the bodies in order gives the original text, character for
\* character.
C7_RoundTripExact ==
  result.done => ConcatBodies(result.value, 1) = arg.text

\* C7, amended: the original text is the chunk bodies in order with only
\* whitespace before, between and after them: what the segmenter drops is
\* whitespace at the chunk boundaries, never other content.
C7_RoundTripUpToBoundaryWhitespace ==
  result.done => BodiesWithGaps(arg.text, 1, result.value, 1)

\* A text of two paragraphs longer than the limit was split into two chunks.
C7_Witness ==
  /\ result.done
  /\ arg.text = <<"a", "b", "\n", "\n", "b">>
  /\ arg.max_len = 3
  /\ Len(result.value) = 2

\* C8: every returned chunk, with its part indicator, is at most max_len
\* long.
C8_ChunkWithinLimit ==
  result.done => \A i \in 1..Len(result.value) : Len(result.value[i]) <= arg.max_len

\* C26: a text no longer than the limit, the empty text and a text of
\* exactly the limit included, comes back as one chunk equal to the text,
\* without a part indicator.
C26_FitsUnchanged ==
  (result.done /\ Len(arg.text) <= arg.max_len)
    => result.value = <<arg.text>>

\* A text of exactly the limit that begins with a blank was returned as it is.
C26_Witness ==
  /\ result.done
  /\ Len(arg.text) = arg.max_len
  /\ arg.text[1] = " "
  /\ result.value = <<arg.text>>

\* "(i/N)" as the recipient reads it.
IndicatorText(i, n) == <<"(">> \o Digits(i) \o <<"/">> \o Digits(n) \o <<")">>

\* C27: when more than one chunk is returned, the chunk at position i of N
\* begins with "(i/N)", N being the number of chunks returned, and the
\* chunk bodies follow the order of the original text.
C27_IndicatorPositions ==
  (result.done /\ Len(result.value) > 1) =>
    /\ \A i \in 1..Len(result.value) :
         LET ind == IndicatorText(i, Len(result.value))
         IN /\ Len(result.value[i]) >= Len(ind)
            /\ SubSeq(result.value[i], 1, Len(ind)) = ind
    /\ BodiesWithGaps(arg.text, 1, result.value, 1)

\* A text was split into three chunks, the last of which begins with "(3/3)".
C27_Witness ==
  /\ result.done
  /\ Len(result.value) = 3
  /\ SubSeq(result.value[3], 1, 5) = <<"(", "3", "/", "3", ")">>
  /\ SubSeq(result.value[1], 1, 5) = <<"(", "1", "/", "3", ")">>

\* The sum of the lengths of the chunk bodies from chunk i on.
RECURSIVE BodyLengths(_, _)
BodyLengths(chunks, i) ==
  IF i > Len(chunks) THEN 0
  ELSE Len(ChunkBody(chunks, i)) + BodyLengths(chunks, i + 1)

\* C28, as claimed: with limit 1500, a text of 4000 characters in
\* paragraphs of about 800 characters separated by blank lines comes back
\* as exactly 3 chunks that begin with (1/3), (2/3), (3/3), each of at most
\* 1500 characters.
C28_ScenarioThreeChunks ==
  result.done =>
    /\ Len(result.value) = 3
    /\ \A i \in 1..Len(result.value) :
         /\ SubSeq(result.value[i], 1, 5) = IndicatorText(i, 3)
         /\ Len(result.value[i]) <= arg.max_len

\* C28, amended: two paragraphs of about 800 characters do not fit into
\* 1500, so the text comes back as exactly 5 chunks, one for each
\* paragraph, that begin with (1/5) ... (5/5), each of at most 1500
\* characters; the bodies hold every character of the text but the blank
\* lines.
C28_ScenarioFiveChunks ==
  result.done =>
    /\ Len(result.value) = 5
    /\ \A i \in 1..Len(result.value) :
         /\ SubSeq(result.value[i], 1, 5) = IndicatorText(i, 5)
         /\ Len(result.value[i]) <= arg.max_len
         /\ \A j \in 1..Len(ChunkBody(result.value, i)) :
              ChunkBody(result.value, i)[j] = "a"
    /\ BodyLengths(result.value, 1) = Len(arg.text) - 2 * 4

\* The scenario text was segmented.
C28_Witness ==
  /\ result.done
  /\ Len(arg.text) = 4000 /\ arg.max_len = ScenarioLimit
  /\ arg.text[799] = "\n" /\ arg.text[800] = "\n"
  /\ Len(result.value) = 5
  /\ Len(result.value[1]) = 798 + 6

\* C37: the "still needed" list of the prompt and the gate agree for every
\* profile: _format_missing reports nothing missing exactly if
\* _is_profile_sufficient is true.
C37_MissingAgreesWithGate ==
  result.done =>
    (result.value.missing = <<AllCollected>> <=> result.value.sufficient)

\* The places of the chunk bodies in the text: every way to find the bodies
\* i.. of chunks in order in text from position pos on, with only whitespace
\* before, between and after them, as the sequence of their first positions.
RECURSIVE Alignments(_, _, _, _)
Alignments(text, pos, chunks, i) ==
  IF i > Len(chunks)
    THEN IF AllSpace(SubSeq(text, pos, Len(text))) THEN {<<>>} ELSE {}
  ELSE
    LET body == ChunkBody(chunks, i)
        gaps == {g \in 0..(Len(text) - pos + 1 - Len(body)) :
                   /\ AllSpace(SubSeq(text, pos, pos + g - 1))
                   /\ SubSeq(text, pos + g, pos + g + Len(body) - 1) = body}
    IN UNION {{<<pos + g>> \o rest :
                 rest \in Alignments(text, pos + g + Len(body), chunks, i + 1)} :
              g \in gaps}

\* The first position of piece k of pieces that are sep characters apart,
\* the first piece beginning at position from.
RECURSIVE PieceStart(_, _, _, _)
PieceStart(pieces, k, sep, from) ==
  IF k = 1 THEN from
  ELSE PieceStart(pieces, k - 1, sep, from) + Len(pieces[k - 1]) + sep

\* The stretches [from, to] of text that must stay in one chunk: every
\* paragraph of at most max_len characters, and every line of at most
\* max_len characters of a longer paragraph.
ShortUnits(text, max_len) ==
  LET paragraphs == SplitParagraphs(text, <<>>)
      ParaFrom(k) == PieceStart(paragraphs, k, 2, 1)
      short == {k \in 1..Len(paragraphs) : Len(paragraphs[k]) <= max_len}
      long == (1..Len(paragraphs)) \ short
  IN {[from |-> ParaFrom(k), to |-> ParaFrom(k) + Len(paragraphs[k]) - 1] :
        k \in short}
     \cup UNION {
        LET lines == SplitLines(paragraphs[k], <<>>)
            LineFrom(j) == PieceStart(lines, j, 1, ParaFrom(k))
        IN {[from |-> LineFrom(j), to |-> LineFrom(j) + Len(lines[j]) - 1] :
              j \in {j \in 1..Len(lines) : Len(lines[j]) <= max_len}} :
        k \in long}

\* The length of the line of text that position k lies in.
LineLength(text, k) ==
  LET before == {i \in 1..k : \A j \in i..k : text[j] # "\n"}
      after == {i \in k..Len(text) : \A j \in k..i : text[j] # "\n"}
  IN Cardinality(before \cup after)

\* With the chunk bodies at the positions starts, the stretch unit lies in
\* one chunk but for its whitespace.
Undivided(text, chunks, starts, unit) ==
  LET inked == {k \in unit.from..unit.to : ~IsSpace(text[k])}
  IN \/ inked = {}
     \/ \E i \in 1..Len(chunks) :
          \A k \in inked :
            starts[i] <= k /\ k < starts[i] + Len(ChunkBody(chunks, i))

\* Chunk i ends and chunk i + 1 begins inside one and the same line.
CutInLine(text, chunks, starts, i) ==
  LET end == starts[i] + Len(ChunkBody(chunks, i)) - 1
      next == starts[i + 1]
  IN /\ ChunkBody(chunks, i) # <<>>
     /\ ChunkBody(chunks, i + 1) # <<>>
     /\ \A k \in end..next : text[k] # "\n"

\* C38: split priority. In the chunks of a text longer than the limit, a
\* paragraph of at most limit characters lies in one chunk, a line of at
\* most limit characters of a longer paragraph lies in one chunk, and two
\* successive chunks meet inside a line only if that line is longer than the
\* limit and the first of the two is a slice of exactly limit characters.
C38_SplitPriority ==
  (result.done /\ Len(arg.text) > arg.max_len) =>
    \E starts \in Alignments(arg.text, 1, result.value, 1) :
      /\ \A unit \in ShortUnits(arg.text, arg.max_len) :
           Undivided(arg.text, result.value, starts, unit)
      /\ \A i \in 1..(Len(result.value) - 1) :
           CutInLine(arg.text, result.value, starts, i)
             => /\ LineLength(arg.text, starts[i]) > arg.max_len
                /\ Len(ChunkBody(result.value, i)) = arg.max_len

\* A paragraph longer than the limit whose first line is longer than the
\* limit and whose second line is not: the first line was cut into slices,
\* the second is a chunk of its own.
C38_Witness ==
  /\ result.done
  /\ arg.text = <<"a", "a", "a", "\n", "b">>
  /\ arg.max_len = 2
  /\ Len(result.value) = 3
  /\ ChunkBody(result.value, 1) = <<"a", "a">>
  /\ ChunkBody(result.value, 2) = <<"a">>
  /\ ChunkBody(result.value, 3) = <<"b">>

\* C10: the sufficiency predicate is true exactly when the age is verified,
\* the skin type is set, the concern list is non-empty, one of is_pregnant /
\* is_nursing / planning_pregnancy is non-null, health_screened is true, sun
\* exposure and budget are set and a morning or evening routine is recorded.
C10_SufficiencyExact ==
  result.done =>
    (result.value <=> SufficientAsSpecified(arg))

=============================================================================
